---- MODULE Spec2Model ----
(***************************************************************************)
(* Model of the search orchestration of AnimeSauceFinder (src/script.js):  *)
(* searchAnime / startSearch / endSearch / abortCurrentSearch /            *)
(* performSearch, the in-memory searchCache with cleanupCache, and the     *)
(* user actions that interleave with a running search.                     *)
(*                                                                         *)
(* JavaScript runs each handler to its next real suspension point; the     *)
(* continuation of a settled promise (microtask) runs before the next      *)
(* event.  An action below is therefore one handler together with the      *)
(* microtasks it triggers.  The real suspension points of a search are     *)
(* hashing the file (pc "hash"), the request with the reading of its body  *)
(* (pc "fetch") and the backoff sleep (pc "sleep").                        *)
(***************************************************************************)
EXTENDS Integers, Sequences, FiniteSets, TLC

VARIABLES
    currentFile,      \* this.currentFile (NoFile = null)
    urlInput,         \* this.urlInput.value, a string as a sequence of characters
    isSearching,      \* this.isSearching
    abortController,  \* this.abortController: 0 = null, else the controller's id
    aborted,          \* controllers whose signal is aborted
    searchCache,      \* this.searchCache: the Map's entries in Map (first insertion) order
    metrics,          \* this.metrics counters
    searchHistory,    \* this.searchHistory, newest first
    resultsShown,     \* what resultsContainer shows
    sessions,         \* one record per searchAnime call that passed its guards
    now,              \* Date.now()
    edits,            \* number of changes of the inputs so far
    inserts,          \* number of searchCache.set calls so far (history variable)
    stored,           \* the searchCache.set calls of the sessions, the latest per key, and
                      \* whether the capacity limit evicted the entry since (history variable)
    call              \* a call of a helper function on its own, or the last call of
                      \* a handler whose calls are observed: the function, what it
                      \* was given and, once it has returned, its result

vars == <<currentFile, urlInput, isSearching, abortController, aborted, searchCache,
          metrics, searchHistory, resultsShown, sessions, now, edits, inserts, stored, call>>

-----------------------------------------------------------------------------
(* Program constants *)

CACHE_EXPIRY == 3600000
MAX_CACHE_SIZE == 100
maxRetries == 3
MAX_HISTORY == 50
MAX_FILE_SIZE == 25 * 1024 * 1024
SUPPORTED_FORMATS ==
    {"image/jpeg", "image/jpg", "image/png", "image/gif", "image/webp", "image/bmp", "image/avif"}
\* 0.8, in tenths
IMAGE_QUALITY_THRESHOLD == 8

(* Bounds of the model *)

\* searches started
MaxSessions == 2
\* files selected and edits of the URL field
MaxEdits == 2

\* the instants at which something happens, under Spec and under SpecCache
ClockValues == {0, CACHE_EXPIRY}
CacheClockValues == {0, CACHE_EXPIRY - 1, CACHE_EXPIRY, CACHE_EXPIRY + 1, 2 * CACHE_EXPIRY}

-----------------------------------------------------------------------------
(* Inputs *)

NoFile == "none"
Files == {"F1", "F2"}

\* file.arrayBuffer(): the bytes of a file, by content id
FileContent(f) == IF f = "F1" THEN 1 ELSE 2
\* file.size
FileSize(f) == IF f = "F1" THEN 10 ELSE 20

\* A string is a sequence of characters; SPACE is a whitespace character,
\* any other number stands for a whitespace-free piece of text.
SPACE == 0
ValidUrlSymbols == {1, 2}
UrlInputs == { <<>>, <<1>>, <<SPACE, 1>> }

RECURSIVE TrimLeft(_)
TrimLeft(str) ==
    IF str = <<>> THEN <<>>
    ELSE IF Head(str) = SPACE THEN TrimLeft(Tail(str)) ELSE str

RECURSIVE TrimRight(_)
TrimRight(str) ==
    IF str = <<>> THEN <<>>
    ELSE IF str[Len(str)] = SPACE THEN TrimRight(SubSeq(str, 1, Len(str) - 1)) ELSE str

\* String.prototype.trim
Trim(str) == TrimRight(TrimLeft(str))

\* isValidUrl: new URL(url) parses and the protocol is http: or https:
isValidUrl(url) == Len(url) = 1 /\ url[1] \in ValidUrlSymbols

-----------------------------------------------------------------------------
(* Cache keys *)

NoKey == [kind |-> "none", hash |-> 0, size |-> 0, url |-> <<>>]

\* hashFile: SHA-256 of the bytes as hex; an injective image of the content
hashFile(f) == 256 + FileContent(f)

FileKey(hash, size) == [kind |-> "file", hash |-> hash, size |-> size, url |-> <<>>]
UrlKey(value) == [kind |-> "url", hash |-> 0, size |-> 0, url |-> value]
UnknownKey == [kind |-> "unknown", hash |-> 0, size |-> 0, url |-> <<>>]

\* generateCacheKey when no file is selected (no real suspension)
generateCacheKeyNoFile(urlValue) ==
    IF urlValue # <<>> THEN UrlKey(urlValue) ELSE UnknownKey

-----------------------------------------------------------------------------
(* Requests and responses *)

\* API_BASE_URL + API_ENDPOINTS.search
SearchEndpoint == <<"https://api.trace.moe", "/search">>

NoRequest ==
    [method |-> "none", target |-> <<>>, url |-> <<>>, accept |-> "none",
     field |-> "none", image |-> NoFile]

\* encodeURIComponent: a piece of a URL (it holds ":" and "/") and a space
\* are replaced by their escaped forms, written 1000 + the character
\* (variant: the text left as it is)
encodeURIComponent_Raw(str) == str
encodeURIComponent(str) == [i \in 1..Len(str) |-> 1000 + str[i]]

\* buildSearchUrl + buildRequestOptions, from the state at the time of the attempt:
\* target and url make the request URL, accept is the Accept header, image the
\* value appended to the FormData under the name field
buildRequest(file, urlRaw) ==
    LET urlValue == Trim(urlRaw) IN
    IF urlValue # <<>>
    THEN [method |-> "GET", target |-> SearchEndpoint \o <<"?url=">>,
          url |-> encodeURIComponent(urlValue), accept |-> "application/json",
          field |-> "none", image |-> NoFile]
    ELSE [method |-> "POST", target |-> SearchEndpoint, url |-> <<>>, accept |-> "none",
          field |-> "image", image |-> file]

\* A match the service returns names the request it answers
MatchFor(req) == [answers |-> req]

\* data.result of a successful response to req: empty or one match
ServiceResults(req) == { <<>>, <<MatchFor(req)>> }

\* What a request settles with.  status: "rejected" (fetch rejects: no
\* connection, CORS), "2xx" (response.ok) or "other"; body: "notjson"
\* (response.json() rejects), "error" (JSON with a truthy error field) or
\* "result" (JSON without one, data.result || [] being result)
NoResponse == [status |-> "none", body |-> "none", result |-> <<>>]
Rejected == [status |-> "rejected", body |-> "none", result |-> <<>>]

Responses(req) ==
    {Rejected}
    \cup { [status |-> "2xx", body |-> b, result |-> <<>>] : b \in {"notjson", "error"} }
    \cup { [status |-> "2xx", body |-> "result", result |-> r] : r \in ServiceResults(req) }
    \cup { [status |-> "other", body |-> "error", result |-> <<>>],
            [status |-> "other", body |-> "result", result |-> <<MatchFor(req)>>] }

\* response.ok (line 957)
\* (variant: the status not looked at)
ResponseOk_Any(response) == TRUE
ResponseOk(response) == response.status = "2xx"

\* the error the try block throws for a response (lines 949-966), "none" if
\* it reaches the cache write
ResponseError(response) ==
    IF response.status = "rejected" THEN "NetworkError"
    ELSE IF ~ResponseOk(response) THEN "HttpError"
    ELSE IF response.body = "notjson" THEN "SyntaxError"
    ELSE IF response.body = "error" THEN "ServiceError"
    ELSE "none"

\* Math.pow(2, n)
RECURSIVE Pow2(_)
Pow2(n) == IF n = 0 THEN 1 ELSE 2 * Pow2(n - 1)

\* requestEnd - requestStart of a request, in milliseconds: multiples of a
\* power of two, so that the halvings of the average are exact
ResponseTimes == {64, 192}

\* the update of metrics.avgResponseTime (line 980)
\* (variant: the last response time taken as the average)
RollingAverage_Last(avg, responseTime) == responseTime
RollingAverage(avg, responseTime) == (avg + responseTime) \div 2

\* Math.random() * 1000, in milliseconds
RandomValues == {0, 999}

\* the delay of the backoff (line 996)
\* (variant: the exponent counted from zero)
BackoffDelay_FromZero(attempt, random) == Pow2(attempt - 1) * 1000 + random
BackoffDelay(attempt, random) == Pow2(attempt) * 1000 + random

-----------------------------------------------------------------------------
(* The Map searchCache *)

NoEntry == [key |-> NoKey, data |-> <<>>, timestamp |-> 0, seq |-> 0]

CacheKeys(cache) == { cache[i].key : i \in 1..Len(cache) }

\* Map.get
CacheGet(cache, key) ==
    IF key \in CacheKeys(cache)
    THEN cache[CHOOSE i \in 1..Len(cache) : cache[i].key = key]
    ELSE NoEntry

\* Map.set: an existing key keeps its position
CacheSet(cache, entry) ==
    IF entry.key \in CacheKeys(cache)
    THEN [i \in 1..Len(cache) |-> IF cache[i].key = entry.key THEN entry ELSE cache[i]]
    ELSE Append(cache, entry)

\* the test of the cache probe, performSearch line 933
\* (variant: <= for <)
IsCacheHit_Inclusive(entry, time) == entry # NoEntry /\ time - entry.timestamp <= CACHE_EXPIRY
IsCacheHit(entry, time) == entry # NoEntry /\ time - entry.timestamp < CACHE_EXPIRY

\* the test of the expiry sweep, cleanupCache line 1736
\* (variant: the age compared in seconds)
SweepDeletes_Seconds(entry, time) == time - entry.timestamp > CACHE_EXPIRY \div 1000
SweepDeletes(entry, time) == time - entry.timestamp > CACHE_EXPIRY

\* entries.sort((a, b) => a[1].timestamp - b[1].timestamp): position of entry i
\* in the stably sorted array
\* (variant: the array left in Map order)
SortedPosition_Unsorted(entries, i) == i
SortedPosition(entries, i) ==
    Cardinality({ j \in 1..Len(entries) :
        \/ entries[j].timestamp < entries[i].timestamp
        \/ entries[j].timestamp = entries[i].timestamp /\ j <= i })

\* entries.slice(0, entries.length - 100) of the sorted array, as a set of keys
\* (variant: one entry more sliced off)
CapacityVictims_OneMore(entries) ==
    IF Len(entries) > MAX_CACHE_SIZE
    THEN { entries[i].key : i \in { j \in 1..Len(entries) :
               SortedPosition(entries, j) <= Len(entries) - MAX_CACHE_SIZE + 1 } }
    ELSE {}
CapacityVictims(entries) ==
    IF Len(entries) > MAX_CACHE_SIZE
    THEN { entries[i].key : i \in { j \in 1..Len(entries) :
               SortedPosition(entries, j) <= Len(entries) - MAX_CACHE_SIZE } }
    ELSE {}

\* cleanupCache
cleanupCache(cache, time) ==
    LET swept == SelectSeq(cache, LAMBDA e : ~SweepDeletes(e, time))
        victims == CapacityVictims(swept)
    IN SelectSeq(swept, LAMBDA e : e.key \notin victims)

-----------------------------------------------------------------------------
(* Sessions *)

NewSession(file, urlValue) ==
    [pc |-> "start", attempt |-> 0, cacheKey |-> NoKey, hashing |-> file,
     urlValue |-> urlValue, signal |-> 0, request |-> NoRequest,
     outcome |-> "pending", results |-> <<>>,
     requests |-> 0, waits |-> 0, fails |-> 0, cancelled |-> FALSE, hit |-> FALSE,
     response |-> NoResponse, error |-> "none", delay |-> 0, responseTime |-> 0]

Started == DOMAIN sessions

\* a call of searchAnime that has returned: its locals are gone (the key it
\* probed and the file it hashed are kept as history values)
Finished(sess, outcome, results) ==
    [sess EXCEPT !.pc = "done", !.urlValue = <<>>,
                 !.signal = 0, !.request = NoRequest, !.delay = 0,
                 !.outcome = outcome, !.results = results]

\* The part of the state a search handler reads and writes
World ==
    [sessions |-> sessions, cache |-> searchCache, metrics |-> metrics,
     history |-> searchHistory, shown |-> resultsShown,
     isSearching |-> isSearching, abortController |-> abortController,
     aborted |-> aborted, inserts |-> inserts, stored |-> stored]

\* endSearch
\* (variants: the controller left installed; the flag left set)
endSearch_KeepsController(w) == [w EXCEPT !.isSearching = FALSE]
endSearch_KeepsSearching(w) == [w EXCEPT !.abortController = 0]
endSearch(w) == [w EXCEPT !.isSearching = FALSE, !.abortController = 0]

\* addToHistory
addToHistory(history, input, results) ==
    LET item == [input |-> input, resultsCount |-> Len(results)]
        h == <<item>> \o history
    IN IF Len(h) > MAX_HISTORY THEN SubSeq(h, 1, MAX_HISTORY) ELSE h

\* this.currentFile || urlValue, as addToHistory records it
HistoryInput(file, urlValue) ==
    IF file # NoFile THEN [type |-> "file", file |-> file, url |-> <<>>]
    ELSE [type |-> "url", file |-> NoFile, url |-> urlValue]

\* searchAnime after performSearch has returned results (lines 805-821, 826-828)
ReturnResults(w, s, results) ==
    LET input == HistoryInput(currentFile, w.sessions[s].urlValue)
        w1 == [w EXCEPT
                 !.sessions[s] = Finished(@, IF results # <<>> THEN "results" ELSE "empty", results),
                 !.shown = [shown |-> TRUE, results |-> results],
                 !.history = addToHistory(@, input, results),
                 !.metrics.successCount = IF results # <<>> THEN @ + 1 ELSE @]
    IN endSearch(w1)

\* searchAnime when performSearch throws (lines 823-828) with handleError
\* (variant: the cache emptied on a failure)
ThrowError_ClearsCache(w, s, kind) ==
    LET w1 == [w EXCEPT
                 !.sessions[s] = Finished(@, kind, <<>>),
                 !.metrics.errorCount = @ + 1 + 1,
                 !.cache = <<>>]
    IN endSearch(w1)
ThrowError(w, s, kind) ==
    LET w1 == [w EXCEPT
                 !.sessions[s] = Finished(@, kind, <<>>),
                 !.metrics.errorCount = @ + 1 + 1]
    IN endSearch(w1)

\* one pass of the try block up to the fetch call (lines 943-952)
\* (variant: a cache miss counted at every attempt)
IssueRequest_CountsMiss(w, s) ==
    [w EXCEPT
       !.sessions[s].pc = "fetch",
       !.sessions[s].request = buildRequest(currentFile, urlInput),
       !.sessions[s].signal = w.abortController,
       !.sessions[s].response = NoResponse,
       !.sessions[s].error = "none",
       !.sessions[s].delay = 0,
       !.sessions[s].requests = @ + 1,
       !.metrics.cacheMisses = @ + 1]
IssueRequest(w, s) ==
    [w EXCEPT
       !.sessions[s].pc = "fetch",
       !.sessions[s].request = buildRequest(currentFile, urlInput),
       !.sessions[s].signal = w.abortController,
       !.sessions[s].response = NoResponse,
       !.sessions[s].error = "none",
       !.sessions[s].delay = 0,
       !.sessions[s].requests = @ + 1]

\* performSearch from the cache probe to the first request (lines 932-952)
ProbeCache(w, s, key) ==
    LET cachedResult == CacheGet(w.cache, key)
        w1 == [w EXCEPT !.sessions[s].cacheKey = key]
    IN IF IsCacheHit(cachedResult, now)
       THEN ReturnResults([w1 EXCEPT !.metrics.cacheHits = @ + 1,
                                     !.sessions[s].hit = TRUE],
                          s, cachedResult.data)
       ELSE IssueRequest([w1 EXCEPT !.metrics.cacheMisses = @ + 1], s)

\* the catch block of the retry loop (lines 984-998); isAbort: error.name === 'AbortError'
\* (variants: without the attempt cap; without the AbortError test; without retry)
CatchRethrows_NoCap(attempt, isAbort) == isAbort
CatchRethrows_First(attempt, isAbort) == isAbort \/ attempt >= 1
CatchRethrows_AbortRetried(attempt, isAbort) == attempt = maxRetries
CatchRethrows(attempt, isAbort) == isAbort \/ attempt = maxRetries

\* error caught with the given value of Math.random() * 1000
\* (variant: the next attempt started without the wait)
CatchError_NoWait(w, s, error, random) ==
    LET attempt == w.sessions[s].attempt + 1
        isAbort == error = "AbortError"
        w1 == [w EXCEPT !.sessions[s].attempt = attempt,
                        !.sessions[s].error = error,
                        !.sessions[s].fails = IF isAbort THEN @ ELSE @ + 1]
    IN IF CatchRethrows(attempt, isAbort)
       THEN ThrowError(w1, s, IF isAbort THEN "aborted" ELSE "error")
       ELSE IssueRequest(w1, s)
CatchError(w, s, error, random) ==
    LET attempt == w.sessions[s].attempt + 1
        isAbort == error = "AbortError"
        w1 == [w EXCEPT !.sessions[s].attempt = attempt,
                        !.sessions[s].error = error,
                        !.sessions[s].fails = IF isAbort THEN @ ELSE @ + 1]
    IN IF CatchRethrows(attempt, isAbort)
       THEN ThrowError(w1, s, IF isAbort THEN "aborted" ELSE "error")
       ELSE [w1 EXCEPT !.sessions[s].pc = "sleep", !.sessions[s].waits = @ + 1,
                       !.sessions[s].delay = BackoffDelay(attempt, random)]

\* the cache write of a successful response (lines 970-977)
\* (variant: without the length test)
WritesCache_Always(results) == TRUE
WritesCache(results) == Len(results) > 0

\* a successful response received after responseTime (lines 968-982)
Succeed(w, s, results, responseTime) ==
    LET key == w.sessions[s].cacheKey
        entry == [key |-> key, data |-> results, timestamp |-> now, seq |-> w.inserts + 1]
        w1 == IF WritesCache(results)
              THEN [w EXCEPT !.cache = CacheSet(@, entry),
                             !.inserts = @ + 1,
                             !.stored = { p \in @ : p.key # key } \cup
                                          {[key |-> key, data |-> results, timestamp |-> now,
                                            evicted |-> FALSE]}]
              ELSE w
        w2 == [w1 EXCEPT !.metrics.avgResponseTime = RollingAverage(@, responseTime),
                         !.sessions[s].responseTime = responseTime]
    IN ReturnResults(w2, s, results)

\* the try block from the settling of fetch on, and the catch block (lines 949-998)
HandleResponse(w, s, response, responseTime, random) ==
    LET w1 == [w EXCEPT !.sessions[s].response = response]
        error == ResponseError(response)
    IN IF error = "none"
       THEN Succeed(w1, s, response.result, responseTime)
       ELSE CatchError(w1, s, error, random)

\* controller.abort(): every request bound to the signal rejects with AbortError
RECURSIVE AbortRequests(_, _, _)
AbortRequests(w, c, todo) ==
    IF todo = {} THEN w
    ELSE LET s == CHOOSE x \in todo : TRUE
             w1 == IF w.sessions[s].pc = "fetch" /\ w.sessions[s].signal = c
                   THEN CatchError(w, s, "AbortError", 0)
                   ELSE w
         IN AbortRequests(w1, c, todo \ {s})

Apply(w) ==
    /\ sessions' = w.sessions
    /\ searchCache' = w.cache
    /\ metrics' = w.metrics
    /\ searchHistory' = w.history
    /\ resultsShown' = w.shown
    /\ isSearching' = w.isSearching
    /\ abortController' = w.abortController
    /\ aborted' = w.aborted
    /\ inserts' = w.inserts
    /\ stored' = w.stored

-----------------------------------------------------------------------------
(* Initial state: after the constructor and init(), which runs cleanupCache  *)
(* on the empty cache                                                        *)

NothingShown == [shown |-> FALSE, results |-> <<>>]

\* no helper function is called on its own
NoCall == [fn |-> "none", arg |-> <<>>, ret |-> <<>>, done |-> FALSE]

InitProgram ==
    /\ currentFile = NoFile
    /\ urlInput = <<>>
    /\ isSearching = FALSE
    /\ abortController = 0
    /\ aborted = {}
    /\ searchCache = <<>>
    /\ metrics = [errorCount |-> 0, successCount |-> 0, cacheHits |-> 0, cacheMisses |-> 0,
                  avgResponseTime |-> 0]
    /\ searchHistory = <<>>
    /\ resultsShown = NothingShown
    /\ sessions = <<>>
    /\ now = 0
    /\ edits = 0
    /\ inserts = 0
    /\ stored = {}

Init == InitProgram /\ call = NoCall

-----------------------------------------------------------------------------
(* Operations *)

\* startSearch (lines 846-865)
startSearch(w, s) ==
    [w EXCEPT !.isSearching = TRUE,
              !.aborted = IF w.abortController # 0 THEN @ \cup {w.abortController} ELSE @,
              !.abortController = s,
              !.shown = NothingShown]

\* the tests at the head of searchAnime (lines 785-797): the call returns at
\* once because a search runs ("busy"), with the status "Please upload an
\* image or provide an image URL" ("no input") or "Please provide a valid image
\* URL" ("invalid url"), or it goes on ("start")
\* (variants: without the isSearching test; the URL not validated when a
\* file is selected)
searchAnimeOutcome_NoBusyTest(searching, file, urlValue) ==
    IF file = NoFile /\ urlValue = <<>> THEN "no input"
    ELSE IF urlValue # <<>> /\ ~isValidUrl(urlValue) THEN "invalid url"
    ELSE "start"
searchAnimeOutcome_FileSkipsUrlTest(searching, file, urlValue) ==
    IF searching THEN "busy"
    ELSE IF file = NoFile /\ urlValue = <<>> THEN "no input"
    ELSE IF file = NoFile /\ urlValue # <<>> /\ ~isValidUrl(urlValue) THEN "invalid url"
    ELSE "start"
searchAnimeOutcome(searching, file, urlValue) ==
    IF searching THEN "busy"
    ELSE IF file = NoFile /\ urlValue = <<>> THEN "no input"
    ELSE IF urlValue # <<>> /\ ~isValidUrl(urlValue) THEN "invalid url"
    ELSE "start"

\* the record of a call of fn, kept when the calls of fn are observed
Observed(fn, input, value) ==
    IF call.fn = fn THEN [fn |-> fn, arg |-> input, ret |-> value, done |-> TRUE] ELSE call

\* searchAnime (lines 784-829) up to the first real suspension point.  With a
\* file selected that is the hashing of generateCacheKey; without one the key
\* is ready at once and the probe and the first request follow.
SearchAnime ==
    /\ Len(sessions) < MaxSessions
    /\ LET urlValue == Trim(urlInput)
           s == Len(sessions) + 1
           outcome == searchAnimeOutcome(isSearching, currentFile, urlValue)
           input == [searching |-> isSearching, file |-> currentFile, url |-> urlInput]
       IN /\ call' = Observed("searchAnime", input, outcome)
          /\ IF outcome # "start"
             THEN UNCHANGED <<currentFile, urlInput, isSearching, abortController, aborted,
                              searchCache, metrics, searchHistory, resultsShown, sessions,
                              now, edits, inserts, stored>>
             ELSE LET w0 == [World EXCEPT !.sessions = Append(@, NewSession(currentFile, urlValue))]
                      w1 == startSearch(w0, s)
                      w2 == AbortRequests(w1, abortController, IF abortController # 0 THEN Started ELSE {})
                      w3 == IF currentFile # NoFile
                            THEN [w2 EXCEPT !.sessions[s].pc = "hash"]
                            ELSE ProbeCache(w2, s, generateCacheKeyNoFile(urlInput))
                  IN /\ Apply(w3)
                     /\ UNCHANGED <<currentFile, urlInput, now, edits>>

\* generateCacheKey resumes after hashFile (line 1506): the size is read from
\* this.currentFile as it is now; a null currentFile throws a TypeError
HashDone(s) ==
    /\ sessions[s].pc = "hash"
    /\ Apply(IF currentFile = NoFile
             THEN ThrowError([World EXCEPT !.sessions[s].error = "TypeError"], s, "error")
             ELSE ProbeCache(World, s,
                     FileKey(hashFile(sessions[s].hashing), FileSize(currentFile))))
    /\ UNCHANGED <<currentFile, urlInput, now, edits, call>>

\* hashFile rejects (file unreadable, crypto.subtle unavailable): the rejection
\* leaves performSearch through generateCacheKey (lines 931, 1505)
HashFail(s) ==
    /\ sessions[s].pc = "hash"
    /\ Apply(ThrowError([World EXCEPT !.sessions[s].error = "HashError"], s, "error"))
    /\ UNCHANGED <<currentFile, urlInput, now, edits, call>>

\* the request settles with a failure: transport error, status outside 2xx,
\* body that is not JSON, or body with an error field (lines 957-966, 984)
FetchFail(s) ==
    /\ sessions[s].pc = "fetch"
    /\ \E response \in Responses(sessions[s].request), random \in RandomValues :
          /\ response.status # "2xx" \/ response.body # "result"
          /\ Apply(HandleResponse(World, s, response, 0, random))
    /\ UNCHANGED <<currentFile, urlInput, now, edits, call>>

\* the request settles with a 2xx response without an error field (lines 968-982)
FetchSucceed(s) ==
    /\ sessions[s].pc = "fetch"
    /\ \E response \in Responses(sessions[s].request) :
          /\ response.status = "2xx" /\ response.body = "result"
          /\ \E responseTime \in ResponseTimes :
                Apply(HandleResponse(World, s, response, responseTime, 0))
    /\ UNCHANGED <<currentFile, urlInput, now, edits, call>>

\* the backoff sleep elapses and the loop starts the next attempt (lines 997, 941-952)
SleepDone(s) ==
    /\ sessions[s].pc = "sleep"
    /\ Apply(IF sessions[s].attempt < maxRetries
             THEN IssueRequest(World, s)
             ELSE ReturnResults(World, s, <<>>))
    /\ UNCHANGED <<currentFile, urlInput, now, edits, call>>

\* abortCurrentSearch (lines 915-921); the rejected requests run their catch
\* blocks as microtasks after the calling handler
abortCurrentSearch(w) ==
    IF w.abortController # 0
    THEN LET c == w.abortController
             w1 == [w EXCEPT !.aborted = @ \cup {c},
                             !.sessions[c].cancelled = TRUE]
         IN AbortRequests(endSearch(w1), c, Started)
    ELSE w

\* removeImage (lines 724-741)
RemoveImage ==
    \E confirm \in BOOLEAN :
        IF currentFile # NoFile /\ isSearching /\ ~confirm
        THEN UNCHANGED vars
        ELSE /\ Apply(IF currentFile # NoFile /\ isSearching
                      THEN abortCurrentSearch(World) ELSE World)
             /\ currentFile' = NoFile
             /\ UNCHANGED <<urlInput, now, edits, call>>

\* clearAll (lines 746-767)
\* (variant: the cache and the success count cleared too)
ClearAll_ClearsCache ==
    \E confirm \in BOOLEAN :
        IF isSearching /\ ~confirm
        THEN UNCHANGED vars
        ELSE /\ Apply([(IF isSearching THEN abortCurrentSearch(World) ELSE World)
                         EXCEPT !.shown = NothingShown, !.cache = <<>>,
                                !.metrics.successCount = 0])
             /\ currentFile' = NoFile
             /\ urlInput' = <<>>
             /\ UNCHANGED <<now, edits, call>>
ClearAll ==
    \E confirm \in BOOLEAN :
        IF isSearching /\ ~confirm
        THEN UNCHANGED vars
        ELSE /\ Apply([(IF isSearching THEN abortCurrentSearch(World) ELSE World)
                         EXCEPT !.shown = NothingShown])
             /\ currentFile' = NoFile
             /\ urlInput' = <<>>
             /\ UNCHANGED <<now, edits, call>>

\* handleFileSelect / handleDrop / handlePaste with an accepted file: setCurrentFile
\* (lines 564-579)
SelectFile(f) ==
    /\ edits < MaxEdits
    /\ currentFile # f
    /\ currentFile' = f
    /\ edits' = edits + 1
    /\ resultsShown' = NothingShown
    /\ UNCHANGED <<urlInput, isSearching, abortController, aborted, searchCache, metrics,
                   searchHistory, sessions, now, inserts, stored, call>>

\* the user edits the URL field
EditUrl(u) ==
    /\ edits < MaxEdits
    /\ urlInput # u
    /\ urlInput' = u
    /\ edits' = edits + 1
    /\ UNCHANGED <<currentFile, isSearching, abortController, aborted, searchCache, metrics,
                   searchHistory, resultsShown, sessions, now, inserts, stored, call>>

\* the setInterval callback of setupAdvancedCaching (line 1707)
CleanupCache ==
    LET swept == SelectSeq(searchCache, LAMBDA e : ~SweepDeletes(e, now))
        victims == CapacityVictims(swept)
    IN /\ searchCache' = cleanupCache(searchCache, now)
       /\ stored' = { IF p.key \in victims THEN [p EXCEPT !.evicted = TRUE] ELSE p : p \in stored }
       /\ UNCHANGED <<currentFile, urlInput, isSearching, abortController, aborted, metrics,
                      searchHistory, resultsShown, sessions, now, edits, inserts, call>>

\* time passes
Tick(t) ==
    /\ t > now
    /\ now' = t
    /\ UNCHANGED <<currentFile, urlInput, isSearching, abortController, aborted, searchCache,
                   metrics, searchHistory, resultsShown, sessions, edits, inserts, stored, call>>

Next ==
    \/ SearchAnime
    \/ \E s \in Started : HashDone(s)
    \/ \E s \in Started : HashFail(s)
    \/ \E s \in Started : FetchFail(s)
    \/ \E s \in Started : FetchSucceed(s)
    \/ \E s \in Started : SleepDone(s)
    \/ RemoveImage
    \/ ClearAll
    \/ \E f \in Files : SelectFile(f)
    \/ \E u \in UrlInputs : EditUrl(u)
    \/ CleanupCache
    \/ \E t \in ClockValues : Tick(t)

Spec == Init /\ [][Next]_vars

-----------------------------------------------------------------------------
(* Claims about cancellation and the retry loop, under Spec *)

Outstanding == { s \in Started : sessions[s].pc = "fetch" }
Active == { s \in Started : sessions[s].pc # "done" }

\* C1: once a session is cancelled by abortCurrentSearch it starts no further
\* request, and when it ends it ends as cancelled (with the abort error).
C1_NoAttemptAfterCancel ==
    [][\A s \in Started :
         sessions[s].cancelled =>
            /\ sessions'[s].requests = sessions[s].requests
            /\ (sessions'[s].pc = "done" => sessions'[s].outcome = "aborted")]_vars

\* C2: at most one request to the service is outstanding at any time.
C2_OneRequestOutstanding == Cardinality(Outstanding) <= 1

\* C3: at most one session is active at any time: a search started while
\* another session is still running has cancelled that session first.
C3_OneActiveSession == Cardinality(Active) <= 1

\* C4: a session never issues a 4th request; it waits after the 1st and the 2nd
\* failure only; after the 3rd failure it has ended; and a session all of whose
\* attempts failed with a retryable error has issued exactly 3 requests, waited
\* twice and surfaced the error.
C4_ThreeAttemptsThenError ==
    \A s \in Started :
        /\ sessions[s].requests <= 3
        /\ sessions[s].pc = "sleep" =>
               sessions[s].fails \in {1, 2} /\ sessions[s].waits = sessions[s].fails
        /\ sessions[s].fails = 3 => sessions[s].pc = "done"
        /\ (sessions[s].pc = "done" /\ sessions[s].requests >= 1
               /\ sessions[s].fails = sessions[s].requests) =>
               /\ sessions[s].requests = 3
               /\ sessions[s].waits = 2
               /\ sessions[s].outcome = "error"

\* three requests, three retryable failures, two waits, the error surfaced
C4_Witness ==
    \E s \in Started :
        /\ sessions[s].pc = "done" /\ sessions[s].outcome = "error"
        /\ sessions[s].requests = 3 /\ sessions[s].fails = 3 /\ sessions[s].waits = 2
        /\ ~sessions[s].cancelled

\* C5: when the signal bound to a request in flight is aborted, the session
\* ends in that very step with the abort error, whatever the attempt, without
\* a wait and without another request; an ended session never runs again.
C5_AbortInFlightEndsSession ==
    [][\A s \in Started :
         /\ (sessions[s].pc = "fetch" /\ sessions[s].signal # 0
                /\ sessions[s].signal \notin aborted /\ sessions[s].signal \in aborted') =>
               /\ sessions'[s].pc = "done"
               /\ sessions'[s].outcome = "aborted"
               /\ sessions'[s].attempt = sessions[s].attempt + 1
               /\ sessions'[s].requests = sessions[s].requests
               /\ sessions'[s].waits = sessions[s].waits
         /\ sessions[s].pc = "done" => sessions'[s] = sessions[s]]_vars

\* a session cancelled during its third request, after two failures and two waits
C5_Witness ==
    \E s \in Started :
        /\ sessions[s].pc = "done" /\ sessions[s].outcome = "aborted"
        /\ sessions[s].attempt = 3 /\ sessions[s].requests = 3 /\ sessions[s].waits = 2

\* C6: a probe whose key maps to an entry younger than the TTL is a cache hit
\* (and no other probe is): the search ends at once with that entry's results,
\* no session issues a request in that step, cacheHits grows by exactly one and
\* cacheMisses and the cache stay as they were.
C6_HitServedFromCache ==
    [][\A s \in DOMAIN sessions' :
         LET before == IF s \in Started THEN sessions[s].cacheKey ELSE NoKey
             key == sessions'[s].cacheKey
             e == CacheGet(searchCache, key)
             live == key \in CacheKeys(searchCache) /\ now - e.timestamp < 3600000
         IN (before = NoKey /\ key # NoKey) =>
               /\ sessions'[s].hit = live
               /\ live =>
                     /\ sessions'[s].pc = "done"
                     /\ sessions'[s].results = e.data
                     /\ sessions'[s].requests = 0
                     /\ \A t \in Started : sessions'[t].requests = sessions[t].requests
                     /\ metrics'.cacheHits = metrics.cacheHits + 1
                     /\ metrics'.cacheMisses = metrics.cacheMisses
                     /\ searchCache' = searchCache]_vars

\* the same file searched twice: one request by the first search, none by the second
C6_Witness ==
    \E s1, s2 \in Started :
        /\ s1 < s2
        /\ sessions[s1].pc = "done" /\ sessions[s1].outcome = "results"
        /\ ~sessions[s1].hit /\ sessions[s1].requests = 1
        /\ sessions[s1].cacheKey.kind = "file"
        /\ sessions[s2].pc = "done" /\ sessions[s2].cacheKey = sessions[s1].cacheKey
        /\ sessions[s2].hit /\ sessions[s2].requests = 0
        /\ sessions[s2].results = sessions[s1].results

\* C8: a successful response with an empty result list returns the empty list
\* and leaves the cache as it was; no cache entry ever holds an empty list, so
\* such a response leaves nothing for a later probe to hit.
C8_EmptyNeverCached ==
    /\ [](\A i \in 1..Len(searchCache) : searchCache[i].data # <<>>)
    /\ [][\A s \in Started :
            (sessions[s].pc = "fetch" /\ sessions'[s].outcome = "empty") =>
                /\ sessions'[s].results = <<>>
                /\ searchCache' = searchCache
                /\ stored' = stored]_vars

\* an empty response, and then the same key probed again: a miss and a request
C8_Witness ==
    \E s1, s2 \in Started :
        /\ s1 < s2
        /\ sessions[s1].pc = "done" /\ sessions[s1].outcome = "empty"
        /\ sessions[s1].requests = 1
        /\ sessions[s2].cacheKey = sessions[s1].cacheKey
        /\ ~sessions[s2].hit /\ sessions[s2].requests >= 1
        /\ sessions[s1].cacheKey \notin CacheKeys(searchCache)

\* C12: when the hashing of the file fails, the search goes on to the retry
\* loop without a cache key: its first request is issued and the failure is
\* not surfaced as a failed search.
C12_HashFailureProceeds ==
    [][\A s \in Started :
         (sessions[s].pc = "hash" /\ sessions'[s].error = "HashError") =>
            /\ sessions'[s].pc = "fetch"
            /\ sessions'[s].cacheKey = NoKey
            /\ sessions'[s].outcome # "error"
            /\ metrics'.errorCount = metrics.errorCount]_vars

\* C13: a 2xx response whose body is not the expected JSON fails the search on
\* that attempt: the session ends with the error, without a wait and without
\* a further attempt.
C13_MalformedNotRetried ==
    [][\A s \in Started :
         (/\ sessions[s].pc = "fetch"
          /\ sessions'[s].response.status = "2xx"
          /\ sessions'[s].response.body = "notjson") =>
            /\ sessions'[s].pc = "done"
            /\ sessions'[s].outcome = "error"
            /\ sessions'[s].waits = sessions[s].waits]_vars

\* C14: a search that ends by cancellation leaves the cumulative error count
\* of the metrics as it was.
C14_CancelNotCounted ==
    [][\A s \in Started :
         (sessions[s].pc # "done" /\ sessions'[s].pc = "done"
             /\ sessions'[s].outcome = "aborted") =>
            metrics'.errorCount = metrics.errorCount]_vars

\* the source a cache key is derived from, and the source a request sends
KeySource(key) == IF key.kind = "file" THEN "file" ELSE IF key.kind = "url" THEN "url" ELSE "none"
RequestSource(req) ==
    IF req.method = "POST" THEN "file" ELSE IF req.method = "GET" THEN "url" ELSE "none"

\* C15: the source the cache key of a search is derived from is the source its
\* requests send to the service, also when a file and a URL are both present.
C15_KeySourceIsSentSource ==
    \A s \in Started :
        sessions[s].pc = "fetch" =>
            KeySource(sessions[s].cacheKey) = RequestSource(sessions[s].request)

\* C16: two searches by URL whose inputs are equal after trimming probe the
\* same cache key, so the second one, within the TTL, hits what the first stored.
C16_TrimmedUrlSameKey ==
    \A s1, s2 \in Started :
        (/\ sessions[s1].cacheKey.kind = "url" /\ sessions[s2].cacheKey.kind = "url"
         /\ Trim(sessions[s1].cacheKey.url) = Trim(sessions[s2].cacheKey.url)) =>
            sessions[s1].cacheKey = sessions[s2].cacheKey

FileKeyed == { s \in Started : sessions[s].cacheKey.kind = "file" }

\* C17: the cache key of a search by file is made of the digest of the bytes
\* of its file and of the size of that file only: searches of files with the
\* same bytes have equal keys, and searches of files whose digests or sizes
\* differ have different keys.
C17_FileKeyFromDigestAndSize ==
    \A s1, s2 \in FileKeyed :
        LET f1 == sessions[s1].hashing
            f2 == sessions[s2].hashing
        IN /\ FileContent(f1) = FileContent(f2) => sessions[s1].cacheKey = sessions[s2].cacheKey
           /\ (FileContent(f1) # FileContent(f2) \/ FileSize(f1) # FileSize(f2)) =>
                  sessions[s1].cacheKey # sessions[s2].cacheKey
           /\ sessions[s1].cacheKey.size = FileSize(f1)

\* C18: the wait after the 1st failed attempt lasts at least 2000 ms and
\* less than 3000 ms, the wait after the 2nd at least 4000 ms and less than
\* 5000 ms, and no wait follows the 3rd failure.
C18_BackoffDelays ==
    \A s \in Started :
        /\ sessions[s].pc = "sleep" =>
               \/ sessions[s].fails = 1 /\ sessions[s].delay >= 2000 /\ sessions[s].delay < 3000
               \/ sessions[s].fails = 2 /\ sessions[s].delay >= 4000 /\ sessions[s].delay < 5000
        /\ sessions[s].pc # "sleep" => sessions[s].delay = 0
        /\ sessions[s].fails >= 3 => sessions[s].pc = "done" /\ sessions[s].waits = 2

\* a session in its second wait, with the largest random part
C18_Witness ==
    \E s \in Started :
        /\ sessions[s].pc = "sleep" /\ sessions[s].fails = 2 /\ sessions[s].waits = 2
        /\ sessions[s].delay = 4999

\* the error a response raises, by lines 949-966
ErrorOfResponse(response) ==
    IF response.status = "rejected" THEN "NetworkError"
    ELSE IF response.status = "other" THEN "HttpError"
    ELSE IF response.body = "notjson" THEN "SyntaxError"
    ELSE "ServiceError"

\* C19: a failed attempt that is not the third surfaces nothing (the session
\* stays pending, the error count and the results shown stay as they were); an
\* attempt that succeeds after k-1 failures returns its own results, with no
\* error surfaced or counted; a session ends with an error of a response
\* only on its third failure, and the error is that of the third response.
C19_OnlyFinalFailureSurfaced ==
    [][\A s \in Started :
         (sessions[s].pc = "fetch" /\ sessions'[s].response # NoResponse) =>
            \/ /\ sessions'[s].pc = "sleep"
               /\ sessions'[s].fails \in {1, 2}
               /\ sessions'[s].outcome = "pending"
               /\ metrics'.errorCount = metrics.errorCount
               /\ resultsShown' = resultsShown
            \/ /\ sessions'[s].pc = "done"
               /\ sessions'[s].outcome \in {"results", "empty"}
               /\ sessions'[s].results = sessions'[s].response.result
               /\ sessions'[s].requests = sessions'[s].fails + 1
               /\ sessions'[s].error = "none"
               /\ metrics'.errorCount = metrics.errorCount
            \/ /\ sessions'[s].pc = "done"
               /\ sessions'[s].outcome = "error"
               /\ sessions'[s].fails = 3 /\ sessions'[s].requests = 3
               /\ sessions'[s].error = ErrorOfResponse(sessions'[s].response)
               /\ metrics'.errorCount > metrics.errorCount]_vars

\* two failed attempts and a third that returns a match
C19_Witness ==
    \E s \in Started :
        /\ sessions[s].pc = "done" /\ sessions[s].outcome = "results"
        /\ sessions[s].fails = 2 /\ sessions[s].requests = 3 /\ sessions[s].waits = 2
        /\ sessions[s].results # <<>>
        /\ metrics.errorCount = 0

\* C20: a response with a status outside 2xx, whatever its body, and a 2xx
\* response with an error field fail the attempt: nothing is written to the
\* cache, no results are returned, and the session waits for the next attempt
\* unless this was the third one, which ends it with the error.
C20_StatusAndErrorFieldFail ==
    [][\A s \in Started :
         (/\ sessions[s].pc = "fetch"
          /\ \/ sessions'[s].response.status = "other"
             \/ sessions'[s].response.status = "2xx" /\ sessions'[s].response.body = "error") =>
            /\ sessions'[s].attempt = sessions[s].attempt + 1
            /\ sessions'[s].fails = sessions[s].fails + 1
            /\ sessions'[s].results = <<>>
            /\ searchCache' = searchCache
            /\ stored' = stored
            /\ IF sessions[s].attempt + 1 < 3
               THEN sessions'[s].pc = "sleep"
               ELSE sessions'[s].pc = "done" /\ sessions'[s].outcome = "error"]_vars

\* three attempts, the last answered with a status outside 2xx and a body that
\* holds a result list: the error is surfaced and the cache is empty
C20_Witness ==
    \E s \in Started :
        /\ sessions[s].pc = "done" /\ sessions[s].outcome = "error"
        /\ sessions[s].requests = 3 /\ sessions[s].fails = 3
        /\ sessions[s].response.status = "other"
        /\ sessions[s].response.body = "result" /\ sessions[s].response.result # <<>>
        /\ searchCache = <<>>

\* C21: a session issues its requests one at a time: the first when its key is
\* ready, each further one only from the backoff wait that followed the
\* failure of the one before, all earlier requests having settled with a failure.
C21_AttemptsSequential ==
    [][\A s \in DOMAIN sessions' :
         LET before == IF s \in Started THEN sessions[s].requests ELSE 0
             pcBefore == IF s \in Started THEN sessions[s].pc ELSE "start"
         IN sessions'[s].requests # before =>
               /\ sessions'[s].requests = before + 1
               /\ sessions'[s].pc = "fetch"
               /\ \/ before = 0 /\ pcBefore \in {"start", "hash"}
                  \/ /\ before >= 1 /\ pcBefore = "sleep"
                     /\ sessions[s].fails = before /\ sessions[s].waits = before]_vars

\* the third request of a session in flight, after two failures and two waits
C21_Witness ==
    \E s \in Started :
        /\ sessions[s].pc = "fetch" /\ sessions[s].requests = 3
        /\ sessions[s].fails = 2 /\ sessions[s].waits = 2

\* C22: the cache changes only in two ways: a request of a session settles
\* with a non-empty result list, which is stored under that session's key at
\* the current time, every other entry staying as it was; or entries are
\* deleted and no session moves (cleanupCache).  Hits, failed attempts,
\* cancellations, the selection of a file, removeImage and clearAll leave it.
C22_CacheWriters ==
    [][searchCache' # searchCache =>
         \/ \E s \in Started :
               /\ sessions[s].pc = "fetch" /\ sessions'[s].pc = "done"
               /\ sessions'[s].outcome = "results" /\ sessions'[s].results # <<>>
               /\ sessions'[s].response.status = "2xx"
               /\ CacheKeys(searchCache') = CacheKeys(searchCache) \cup {sessions[s].cacheKey}
               /\ CacheGet(searchCache', sessions[s].cacheKey).data = sessions'[s].results
               /\ CacheGet(searchCache', sessions[s].cacheKey).timestamp = now
               /\ \A k \in CacheKeys(searchCache) \ {sessions[s].cacheKey} :
                     CacheGet(searchCache', k) = CacheGet(searchCache, k)
         \/ /\ sessions' = sessions
            /\ currentFile' = currentFile /\ urlInput' = urlInput
            /\ CacheKeys(searchCache') \subseteq CacheKeys(searchCache)
            /\ \A k \in CacheKeys(searchCache') :
                  CacheGet(searchCache', k) = CacheGet(searchCache, k)]_vars

\* a search has stored its results, a later one was cancelled in flight, and
\* the entry is still there
C22_Witness ==
    \E s1, s2 \in Started :
        /\ sessions[s1].outcome = "results" /\ ~sessions[s1].hit
        /\ sessions[s2].outcome = "aborted" /\ sessions[s2].cancelled
        /\ CacheKeys(searchCache) = {sessions[s1].cacheKey}
        /\ CacheGet(searchCache, sessions[s1].cacheKey).data = sessions[s1].results

\* no session is running and some session has stored its results
IdleAfterStore == Active = {} /\ stored # {}

\* C23: once a session has completed and stored its results and nothing is
\* running, cancelling is without effect on the core: isSearching is false,
\* so removeImage and clearAll do not abort, abortCurrentSearch changes
\* nothing, and a removeImage or clearAll step leaves the cache, the metrics,
\* isSearching and the sessions as they are.
C23_CancelAfterCompletion ==
    /\ [](IdleAfterStore =>
             /\ ~isSearching /\ abortController = 0
             /\ abortCurrentSearch(World) = World)
    /\ [][(/\ IdleAfterStore
            /\ currentFile' = NoFile /\ edits' = edits /\ Len(sessions') = Len(sessions)
            /\ <<currentFile, urlInput, resultsShown>> # <<currentFile', urlInput', resultsShown'>>) =>
              /\ searchCache' = searchCache
              /\ metrics' = metrics
              /\ isSearching' = isSearching
              /\ sessions' = sessions
              /\ stored' = stored]_vars

\* a file was searched and its results stored, and the file was removed afterwards
C23_Witness ==
    /\ IdleAfterStore
    /\ currentFile = NoFile
    /\ \E s \in Started :
          /\ sessions[s].outcome = "results" /\ ~sessions[s].hit
          /\ sessions[s].cacheKey.kind = "file"
          /\ sessions[s].request.method = "none"
          /\ sessions[s].cacheKey \in CacheKeys(searchCache)
          /\ metrics.successCount >= 1 /\ metrics.errorCount = 0

\* C26: a request issued while the URL field is not blank is GET
\* <base>/search?url=<the trimmed URL, percent-encoded> with the header
\* Accept: application/json and without a body; a request issued while the
\* field is blank and a file is selected is POST <base>/search with that file
\* in the multipart body under the name image.
C26_RequestFormat ==
    [][\A s \in DOMAIN sessions' :
         LET before == IF s \in Started THEN sessions[s].requests ELSE 0
             req == sessions'[s].request
             u == Trim(urlInput)
         IN sessions'[s].requests > before =>
               /\ u # <<>> =>
                     /\ req.method = "GET"
                     /\ req.target = <<"https://api.trace.moe", "/search", "?url=">>
                     /\ Len(req.url) = Len(u)
                     /\ \A i \in 1..Len(u) : req.url[i] = 1000 + u[i]
                     /\ req.accept = "application/json"
                     /\ req.field = "none" /\ req.image = NoFile
               /\ (u = <<>> /\ currentFile # NoFile) =>
                     /\ req.method = "POST"
                     /\ req.target = <<"https://api.trace.moe", "/search">>
                     /\ req.url = <<>>
                     /\ req.field = "image" /\ req.image = currentFile]_vars

\* a search by URL typed with a leading space has finished and a search by
\* file has its request in flight
C26_Witness ==
    \E s1, s2 \in Started :
        /\ sessions[s1].cacheKey = UrlKey(<<SPACE, 1>>) /\ sessions[s1].requests >= 1
        /\ sessions[s2].pc = "fetch"
        /\ sessions[s2].request.method = "POST" /\ sessions[s2].request.image = currentFile
        /\ currentFile # NoFile

\* C27: a successful response received after r, with an empty or a non-empty
\* result list, makes the rolling average (previous average + r) / 2, and
\* nothing else changes the average: not a cache hit, a failed attempt or a
\* cancellation.
C27_RollingAverage ==
    [][/\ \A s \in Started :
            (sessions[s].pc = "fetch" /\ sessions'[s].pc = "done"
                /\ sessions'[s].outcome \in {"results", "empty"}) =>
               2 * metrics'.avgResponseTime = metrics.avgResponseTime + sessions'[s].responseTime
       /\ metrics'.avgResponseTime # metrics.avgResponseTime =>
            \E s \in Started :
               /\ sessions[s].pc = "fetch" /\ sessions'[s].pc = "done"
               /\ sessions'[s].outcome \in {"results", "empty"}
               /\ sessions'[s].response.status = "2xx"]_vars

\* two successful responses, the first with an empty list, after 64 ms and
\* 192 ms: the average is (64 / 2 + 192) / 2 = 112
C27_Witness ==
    \E s1, s2 \in Started :
        /\ s1 < s2
        /\ sessions[s1].outcome = "empty" /\ sessions[s1].responseTime = 64
        /\ sessions[s2].outcome = "results" /\ ~sessions[s2].hit
        /\ sessions[s2].responseTime = 192
        /\ metrics.avgResponseTime = 112

\* the request req sends the source the key was derived from
AnswersKey(req, key) ==
    IF key.kind = "file"
    THEN req.method = "POST" /\ req.image # NoFile
         /\ hashFile(req.image) = key.hash /\ FileSize(req.image) = key.size
    ELSE IF key.kind = "url"
    THEN req.method = "GET" /\ [i \in 1..Len(req.url) |-> req.url[i] - 1000] = Trim(key.url)
    ELSE FALSE

\* C29: whatever the user does while a search runs, every cache entry holds
\* under its key results that the service returned for the source the key
\* was derived from.
C29_EntryMatchesKey ==
    \A i \in 1..Len(searchCache) :
        \A j \in 1..Len(searchCache[i].data) :
            AnswersKey(searchCache[i].data[j].answers, searchCache[i].key)

\* C30: a session that has been cancelled does not afterwards display
\* results, add a history entry, raise the success count or write the cache.
C30_CancelledStaysSilent ==
    [][\A s \in Started :
         (sessions[s].cancelled /\ sessions'[s] # sessions[s]) =>
            /\ searchHistory' = searchHistory
            /\ metrics'.successCount = metrics.successCount
            /\ searchCache' = searchCache
            /\ (resultsShown' = resultsShown \/ ~resultsShown'.shown)]_vars

\* C31: while the session started by the latest startSearch has neither
\* finished nor been cancelled, isSearching is true and the abort controller
\* is the one of that session.
C31_LatestSessionKeepsFlags ==
    LET s == Len(sessions)
    IN (s > 0 /\ sessions[s].pc # "done" /\ ~sessions[s].cancelled) =>
          (isSearching /\ abortController = s)

\* C32: every request of a session is the request for the source present when
\* the session started (the file selected and the trimmed URL at that time).
C32_SameSourceEveryAttempt ==
    \A s \in Started :
        sessions[s].pc = "fetch" =>
            sessions[s].request = buildRequest(sessions[s].hashing, sessions[s].urlValue)

\* C34: the abort controller is non-null only while isSearching is true, and
\* the only controllers ever aborted are those of searches the user
\* cancelled: startSearch never finds a prior controller to abort.
C34_ControllerOnlyWhileSearching ==
    /\ abortController # 0 => isSearching
    /\ \A c \in aborted : sessions[c].cancelled

\* a second search has been started after the first one ended or was cancelled
C34_Witness ==
    /\ Len(sessions) = 2
    /\ abortController = 2 /\ isSearching
    /\ sessions[1].pc = "done"

\* C37: a search that ends with an error other than a cancellation raises the
\* error count by exactly one.
C37_OneErrorPerFailure ==
    [][\A s \in Started :
         (sessions[s].pc # "done" /\ sessions'[s].pc = "done" /\ sessions'[s].outcome = "error") =>
            metrics'.errorCount = metrics.errorCount + 1]_vars

\* the sessions that got past key generation
Probed == { s \in Started : sessions[s].cacheKey # NoKey }

\* C38: the cache-hit and cache-miss counters together count the searches that
\* got past key generation, each once however many attempts it makes; a search
\* served from the cache counts as a hit and no other does.
C38_OneProbePerSearch ==
    /\ metrics.cacheHits + metrics.cacheMisses = Cardinality(Probed)
    /\ metrics.cacheHits = Cardinality({ s \in Probed : sessions[s].hit })

\* a search that made two attempts counted one miss, and the next search was
\* served from the cache
C38_Witness ==
    /\ metrics.cacheHits = 1 /\ metrics.cacheMisses = 1
    /\ \E s \in Probed : sessions[s].requests >= 2
    /\ \E s \in Probed : sessions[s].hit

-----------------------------------------------------------------------------
(* Termination of searches by file, which pass through every suspension     *)
(* point of a search (hashing, request, backoff wait).  The clock, the cache *)
(* sweep and the URL field play no part in it and are left out; the hashing  *)
(* of a file, every request and every backoff wait settle at some time.      *)

NextLive ==
    \/ SearchAnime
    \/ \E s \in Started : HashDone(s)
    \/ \E s \in Started : HashFail(s)
    \/ \E s \in Started : FetchFail(s)
    \/ \E s \in Started : FetchSucceed(s)
    \/ \E s \in Started : SleepDone(s)
    \/ RemoveImage
    \/ ClearAll
    \/ \E f \in Files : SelectFile(f)

Settles ==
    \A s \in 1..MaxSessions :
        /\ WF_vars(s \in Started /\ (HashDone(s) \/ HashFail(s)))
        /\ WF_vars(s \in Started /\ (FetchFail(s) \/ FetchSucceed(s)))
        /\ WF_vars(s \in Started /\ SleepDone(s))

SpecLive == Init /\ [][NextLive]_vars /\ Settles

\* C33: every started search eventually ends, and when it ends isSearching
\* is false and the abort controller is cleared, whether it returns results,
\* returns an empty list, fails after the retries or is cancelled.
C33_SearchEventuallyEnds ==
    \A s \in 1..MaxSessions :
        (s \in Started /\ sessions[s].pc # "done")
            ~> (s \in Started /\ sessions[s].pc = "done" /\ ~isSearching /\ abortController = 0)

\* searches have ended in two of the four ways and the flags are cleared
C33_Witness ==
    /\ Len(sessions) = 2
    /\ sessions[1].pc = "done" /\ sessions[2].pc = "done"
    /\ sessions[1].outcome = "aborted" /\ sessions[2].outcome = "error"
    /\ sessions[2].attempt = maxRetries
    /\ ~isSearching /\ abortController = 0

-----------------------------------------------------------------------------
(* The tests at the head of searchAnime.  The calls of searchAnime are       *)
(* observed: call holds what the last call read and how it returned.  The    *)
(* URL field takes blank and invalid values too; nothing is cancelled.       *)

\* <<9>> stands for a text that is not an absolute http/https URL
GuardUrlInputs == { <<>>, <<SPACE>>, <<1>>, <<9>>, <<SPACE, 9>> }

InitGuard ==
    /\ InitProgram
    /\ call = [fn |-> "searchAnime", arg |-> <<>>, ret |-> "none", done |-> FALSE]

NextGuard ==
    \/ SearchAnime
    \/ \E s \in Started : HashDone(s)
    \/ \E s \in Started : FetchFail(s)
    \/ \E s \in Started : FetchSucceed(s)
    \/ \E s \in Started : SleepDone(s)
    \/ \E f \in Files : SelectFile(f)
    \/ \E u \in GuardUrlInputs : EditUrl(u)

SpecGuard == InitGuard /\ [][NextGuard]_vars

\* what a call of searchAnime can change
SearchState ==
    <<isSearching, abortController, aborted, sessions, metrics, searchCache, searchHistory>>

\* C35: a call of searchAnime made while isSearching is true returns at once
\* and changes nothing: no session is started, no request issued, nothing
\* aborted, and metrics, cache and history are as before.
C35_BusyCallChangesNothing ==
    [][(call' # call /\ isSearching) => (call'.ret = "busy" /\ UNCHANGED SearchState)]_vars

\* searchAnime was called while a request of a running search was outstanding
C35_Witness ==
    /\ call.done /\ call.arg.searching /\ call.ret = "busy"
    /\ \E s \in Started : sessions[s].pc = "fetch"

\* C36: a call of searchAnime made while no search runs, with neither a file
\* nor a non-blank URL or with a non-blank URL that is not a valid http/https
\* URL (a file selected or not), reports the error and changes nothing: no
\* session is started, isSearching stays false, and metrics, cache and history
\* are as before.
C36_RejectedCallStartsNothing ==
    [][(/\ call' # call
        /\ ~isSearching
        /\ \/ currentFile = NoFile /\ Trim(urlInput) = <<>>
           \/ Trim(urlInput) # <<>> /\ ~(Len(Trim(urlInput)) = 1 /\ Trim(urlInput)[1] \in ValidUrlSymbols))
       => /\ call'.ret \in {"no input", "invalid url"}
          /\ ~isSearching'
          /\ UNCHANGED SearchState]_vars

\* searchAnime was called with a file selected and an invalid URL in the field,
\* after an earlier search had filled the cache
C36_Witness ==
    /\ call.done /\ call.ret = "invalid url"
    /\ ~call.arg.searching /\ call.arg.file # NoFile
    /\ ~isSearching /\ Len(searchCache) > 0

-----------------------------------------------------------------------------
(* The cache over a long time: searches by URL run one after the other       *)
(* (nothing is cancelled), the clock passes the expiry time, and the cache   *)
(* may already hold the results of earlier searches by URL.                  *)

\* the URL of the i-th earlier search
EarlierUrl(i) == <<100 + i>>

\* the cache after a search of URL <<1>> at time 0 and n further searches by URL,
\* one per millisecond, the last of them at time CACHE_EXPIRY - 1
EarlierSearches(n) ==
    [i \in 1..(n + 1) |->
        IF i = 1
        THEN [key |-> UrlKey(<<1>>),
              data |-> <<MatchFor(buildRequest(NoFile, <<1>>))>>,
              timestamp |-> 0, seq |-> 1]
        ELSE [key |-> UrlKey(EarlierUrl(i - 1)),
              data |-> <<MatchFor(buildRequest(NoFile, EarlierUrl(i - 1)))>>,
              timestamp |-> CACHE_EXPIRY - (n + 1) + (i - 1), seq |-> i]]

EarlierCounts == {MAX_CACHE_SIZE - 2, MAX_CACHE_SIZE - 1}

InitCache ==
    /\ currentFile = NoFile
    /\ urlInput = <<>>
    /\ isSearching = FALSE
    /\ abortController = 0
    /\ aborted = {}
    /\ \/ searchCache = <<>> /\ now = 0
       \/ \E n \in EarlierCounts : searchCache = EarlierSearches(n) /\ now = CACHE_EXPIRY
    /\ metrics = [errorCount |-> 0, successCount |-> 0, cacheHits |-> 0, cacheMisses |-> 0,
                  avgResponseTime |-> 0]
    /\ searchHistory = <<>>
    /\ resultsShown = NothingShown
    /\ sessions = <<>>
    /\ edits = 0
    /\ inserts = Len(searchCache)
    /\ stored = {}
    /\ call = NoCall

NextCache ==
    \/ SearchAnime
    \/ \E s \in Started : FetchFail(s)
    \/ \E s \in Started : FetchSucceed(s)
    \/ \E s \in Started : SleepDone(s)
    \/ \E u \in UrlInputs : EditUrl(u)
    \/ CleanupCache
    \/ \E t \in CacheClockValues : Tick(t)

SpecCache == InitCache /\ [][NextCache]_vars

-----------------------------------------------------------------------------
(* Claims about the cache, under SpecCache *)

\* C7: a non-empty list stored under k at time t (and not stored again, nor
\* evicted for capacity since) is what a probe for k returns as long as
\* now - t < TTL, and a probe for k misses once now - t >= TTL, with or
\* without a cleanup in between.
C7_StoredUntilExpiry ==
    \A p \in stored :
        ~p.evicted =>
            LET e == CacheGet(searchCache, p.key) IN
            /\ now - p.timestamp < 3600000 => IsCacheHit(e, now) /\ e.data = p.data
            /\ now - p.timestamp >= 3600000 => ~IsCacheHit(e, now)

\* an entry aged exactly the TTL that no cleanup has removed: the probe misses it
C7_Witness ==
    \E p \in stored :
        /\ ~p.evicted
        /\ now - p.timestamp = 3600000
        /\ p.key \in CacheKeys(searchCache)

\* C9: once an insertion has completed the cache holds at most 100 entries.
C9_CapacityAfterInsertion == stored # {} => Len(searchCache) <= 100

Unexpired(cache, time) == { i \in 1..Len(cache) : time - cache[i].timestamp < 3600000 }

\* the keys of the 100 entries of the cache that were inserted last
LastInserted100(cache) ==
    { cache[i].key : i \in { j \in 1..Len(cache) :
          Cardinality({ k \in 1..Len(cache) : cache[k].seq > cache[j].seq }) < 100 } }

\* C10: in every reachable state, cleanupCache leaves at most 100 entries, and
\* if more than 100 unexpired entries exist it keeps exactly the 100 inserted
\* last, an overwritten key counting by its latest insertion.
C10_CleanupKeepsNewest100 ==
    LET after == cleanupCache(searchCache, now) IN
    /\ Len(after) <= 100
    /\ Cardinality(Unexpired(searchCache, now)) > 100 =>
           CacheKeys(after) = LastInserted100(searchCache)

\* more than 100 unexpired entries, the first of them in Map order overwritten
\* after all the others were inserted
C10_Witness ==
    /\ Cardinality(Unexpired(searchCache, now)) > 100
    /\ \A i \in 2..Len(searchCache) : searchCache[1].seq > searchCache[i].seq \/ i > 100
    /\ searchCache[1].key \in CacheKeys(cleanupCache(searchCache, now))

\* C11: after the expiry sweep of cleanupCache at time now, no entry with
\* now - timestamp >= TTL is left in the cache, an entry aged exactly the TTL
\* included.
C11_SweepRemovesAgedTTL ==
    LET after == cleanupCache(searchCache, now) IN
    \A i \in 1..Len(after) : ~(now - after[i].timestamp >= 3600000)

\* C39: in every reachable state, at whatever time cleanupCache runs, it
\* deletes no entry younger than the TTL as long as the cache holds 100 or
\* fewer such entries.
C39_CleanupKeepsYoung ==
    LET after == cleanupCache(searchCache, now) IN
    Cardinality(Unexpired(searchCache, now)) <= 100 =>
        \A i \in Unexpired(searchCache, now) :
            \E j \in 1..Len(after) : after[j] = searchCache[i]

\* 101 entries of which 100 are younger than the TTL and one is aged exactly
\* the TTL: the capacity step runs and removes the aged one
C39_Witness ==
    /\ Len(searchCache) = 101
    /\ Cardinality(Unexpired(searchCache, now)) = 100
    /\ Len(cleanupCache(searchCache, now)) = 100
    /\ stored # {}

-----------------------------------------------------------------------------
(* Helper functions, called on their own with arguments drawn from small     *)
(* sets.  A similarity is written in thousandths (950 is 0.95), a time in    *)
(* tenths of a second, a quality in tenths; a text is a sequence of          *)
(* characters and of pieces of literal text.                                 *)

Min(a, b) == IF a < b THEN a ELSE b

\* the test of the filter of displayResults: result.similarity > 0.1
\* (variant: >= for >)
PassesFilter_Inclusive(result) == result.similarity >= 100
PassesFilter(result) == result.similarity > 100

\* insertion of result before the first element that is not more similar
RECURSIVE InsertBySimilarity(_, _)
InsertBySimilarity(result, sorted) ==
    IF sorted = <<>> THEN <<result>>
    ELSE IF Head(sorted).similarity <= result.similarity THEN <<result>> \o sorted
    ELSE <<Head(sorted)>> \o InsertBySimilarity(result, Tail(sorted))

\* sort((a, b) => b.similarity - a.similarity): stable, most similar first
RECURSIVE SortBySimilarity(_)
SortBySimilarity(results) ==
    IF results = <<>> THEN <<>>
    ELSE InsertBySimilarity(Head(results), SortBySimilarity(Tail(results)))

\* displayResults: the list handed to generateResultsHTML
displayResults(results) ==
    LET filteredResults == SortBySimilarity(SelectSeq(results, PassesFilter))
    IN SubSeq(filteredResults, 1, Min(10, Len(filteredResults)))

\* isValidImageFile: what it returns and the status it shows.  integrity:
\* whether the image loads in validateImageIntegrity; assess: whether the load
\* handler of assessImageQuality runs to its resolve or throws before it (the
\* pixels of the canvas cannot be read), in which case the promise it returned
\* is never settled and isValidImageFile never returns
isValidImageFile(file) ==
    IF file.type \notin SUPPORTED_FORMATS THEN [value |-> "false", status |-> "error"]
    ELSE IF file.size > MAX_FILE_SIZE THEN [value |-> "false", status |-> "error"]
    ELSE IF file.integrity = "fails" THEN [value |-> "true", status |-> "none"]
    ELSE IF file.assess = "throws" THEN [value |-> "unsettled", status |-> "none"]
    ELSE IF file.quality < IMAGE_QUALITY_THRESHOLD THEN [value |-> "true", status |-> "warning"]
    ELSE [value |-> "true", status |-> "none"]

DigitChars == <<"0", "1", "2", "3", "4", "5", "6", "7", "8", "9">>

\* String(n) for a natural number
RECURSIVE NumberToString(_)
NumberToString(n) ==
    IF n < 10 THEN <<DigitChars[n + 1]>>
    ELSE NumberToString(n \div 10) \o <<DigitChars[(n % 10) + 1]>>

\* padStart(2, '0')
\* (variant: no padding)
padStart2_None(text) == text
padStart2(text) == IF Len(text) < 2 THEN <<"0">> \o text ELSE text

\* formatTime of formatTimestamp
formatTime(time) ==
    LET minutes == time \div 600
        secs == (time % 600) \div 10
    IN NumberToString(minutes) \o <<":">> \o padStart2(NumberToString(secs))

Undefined == 0 - 1

\* formatTimestamp; <<>> stands for null
formatTimestamp(from, to) ==
    IF from = Undefined \/ to = Undefined THEN <<>>
    ELSE IF from = to THEN <<"At ">> \o formatTime(from)
    ELSE formatTime(from) \o <<" - ">> \o formatTime(to)

includesBar(text) == \E i \in 1..Len(text) : text[i] = "|"

\* the text before the first "|" and the text after it
BeforeBar(text) ==
    LET i == CHOOSE k \in 1..Len(text) : text[k] = "|" /\ \A j \in 1..(k - 1) : text[j] # "|"
    IN SubSeq(text, 1, i - 1)
AfterBar(text) ==
    LET i == CHOOSE k \in 1..Len(text) : text[k] = "|" /\ \A j \in 1..(k - 1) : text[j] # "|"
    IN SubSeq(text, i + 1, Len(text))

\* formatEpisode; the first two pieces of episode.split('|') are used
formatEpisode(episode) ==
    IF episode.type \in {"null", "undefined"} THEN <<"Episode Unknown">>
    ELSE IF episode.type = "string" /\ includesBar(episode.text)
    THEN LET ep == BeforeBar(episode.text)
             rest == AfterBar(episode.text)
             total == IF includesBar(rest) THEN BeforeBar(rest) ELSE rest
         IN <<"Episode ">> \o ep \o <<" of ">> \o total
    ELSE <<"Episode ">> \o episode.text

\* ((result.similarity || 0) * 100).toFixed(1)
similarityToFixed(similarity) ==
    NumberToString(similarity \div 10) \o <<".">> \o NumberToString(similarity % 10)

\* generateResultItemHTML: the texts of the rank, the similarity, the episode
\* and the timestamp of the item
generateResultItemHTML(result, index) ==
    [rank |-> <<"#">> \o NumberToString(index + 1),
     similarity |-> similarityToFixed(result.similarity) \o <<"%">>,
     episode |-> formatEpisode(result.episode),
     timestamp |-> formatTimestamp(result.from, result.to)]

(* Arguments *)

RankSimilarities == {50, 100, 101, 950}
ToMatches(similarities) ==
    [i \in 1..Len(similarities) |-> [id |-> i, similarity |-> similarities[i]]]
RawLists ==
    { ToMatches(x) : x \in UNION { [1..n -> RankSimilarities] : n \in 0..3 } }
    \cup { ToMatches(<<101, 950, 300, 300, 100, 500, 200, 600, 700, 800, 900, 400, 150>>),
            ToMatches([i \in 1..11 |-> 500]),
            ToMatches([i \in 1..12 |-> 100 + i]) }

FileTypes == SUPPORTED_FORMATS \cup {"image/svg+xml", "text/plain", ""}
FileSizes == {0, MAX_FILE_SIZE - 1, MAX_FILE_SIZE, MAX_FILE_SIZE + 1}
CandidateFiles ==
    [type : FileTypes, size : FileSizes, integrity : {"loads", "fails"},
     assess : {"resolves", "throws"}, quality : {5, 7, 8, 10}]

Episodes ==
    { [type |-> "null", text |-> <<>>], [type |-> "number", text |-> <<"3">>],
      [type |-> "string", text |-> <<"3", "|", "1", "2">>],
      [type |-> "string", text |-> <<"1", "2", "|", "2", "4">>],
      [type |-> "string", text |-> <<"7">>],
      [type |-> "string", text |-> <<"1", "|", "2", "|", "3">>] }
Times == {Undefined, 0, 5, 100, 130, 599, 605, 36000}
RawMatches ==
    [similarity : {0, 101, 950, 1000}, episode : Episodes, from : Times, to : Times]

InitHelpers ==
    /\ InitProgram
    /\ \/ \E results \in RawLists :
             call = [fn |-> "displayResults", arg |-> results, ret |-> <<>>, done |-> FALSE]
       \/ \E file \in CandidateFiles :
             call = [fn |-> "isValidImageFile", arg |-> file, ret |-> <<>>, done |-> FALSE]
       \/ \E result \in RawMatches :
             call = [fn |-> "generateResultItemHTML", arg |-> result, ret |-> <<>>, done |-> FALSE]

Returns(value) ==
    /\ ~call.done
    /\ call' = [call EXCEPT !.ret = value, !.done = TRUE]
    /\ UNCHANGED <<currentFile, urlInput, isSearching, abortController, aborted, searchCache,
                   metrics, searchHistory, resultsShown, sessions, now, edits, inserts, stored>>

DisplayResults == call.fn = "displayResults" /\ Returns(displayResults(call.arg))
IsValidImageFile == call.fn = "isValidImageFile" /\ Returns(isValidImageFile(call.arg))
GenerateResultItemHTML ==
    call.fn = "generateResultItemHTML" /\ Returns(generateResultItemHTML(call.arg, 0))

NextHelpers ==
    \/ DisplayResults
    \/ IsValidImageFile
    \/ GenerateResultItemHTML

SpecHelpers == InitHelpers /\ [][NextHelpers]_vars

-----------------------------------------------------------------------------
(* Claims about the helper functions, under SpecHelpers *)

\* C24: the list displayed for a raw result list holds exactly matches of the
\* raw list with similarity > 0.1, none of them twice, most similar first, as
\* many as there are such matches up to 10, and no left-out match with
\* similarity > 0.1 is more similar than a displayed one; a match with
\* similarity exactly 0.1 is not displayed.
C24_RankedTop10 ==
    (call.fn = "displayResults" /\ call.done) =>
        LET raw == call.arg
            shown == call.ret
            good == { k \in 1..Len(raw) : raw[k].similarity > 100 }
            kept == { k \in good : \E i \in 1..Len(shown) : shown[i] = raw[k] }
        IN /\ \A i \in 1..Len(shown) : \E k \in good : shown[i] = raw[k]
           /\ \A i, j \in 1..Len(shown) : i < j => shown[i].id # shown[j].id
           /\ \A i, j \in 1..Len(shown) : i < j => shown[i].similarity >= shown[j].similarity
           /\ Len(shown) = Min(10, Cardinality(good))
           /\ \A k \in good \ kept : \A i \in 1..Len(shown) :
                 shown[i].similarity >= raw[k].similarity
           /\ \A i \in 1..Len(shown) : shown[i].similarity # 100

\* thirteen matches, one of them of similarity exactly 0.1: ten are displayed
C24_Witness ==
    /\ call.fn = "displayResults" /\ call.done
    /\ Len(call.arg) = 13 /\ Len(call.ret) = 10
    /\ \E k \in 1..Len(call.arg) : call.arg[k].similarity = 100
    /\ call.ret[1].similarity = 950

\* C25: isValidImageFile returns false exactly when the type is not one of
\* the supported ones or the size is above 25 * 1024 * 1024 bytes, and returns
\* true in every other case, whatever the integrity check and the quality
\* heuristic do.
C25_ValidationResult ==
    (call.fn = "isValidImageFile" /\ call.done) =>
        call.ret.value = IF \/ call.arg.type \notin {"image/jpeg", "image/jpg", "image/png",
                                                    "image/gif", "image/webp", "image/bmp",
                                                    "image/avif"}
                            \/ call.arg.size > 26214400
                         THEN "false" ELSE "true"

\* the text of a whole number of seconds below an hour, as m:ss
ClockText(seconds) ==
    LET m == seconds \div 60
        sec == seconds % 60
    IN (IF m < 10 THEN <<DigitChars[m + 1]>>
        ELSE <<DigitChars[(m \div 10) + 1], DigitChars[(m % 10) + 1]>>)
       \o <<":", DigitChars[(sec \div 10) + 1], DigitChars[(sec % 10) + 1]>>

\* C28: the match {similarity 0.95, episode "3|12", from 10, to 13} is
\* rendered with similarity 95.0%, episode text "Episode 3 of 12" and timestamp
\* "0:10 - 0:13"; an episode string a|b is rendered "Episode a of b"; a range
\* with from # to is rendered "m:ss - m:ss", the seconds in two digits.
C28_ItemTexts ==
    (call.fn = "generateResultItemHTML" /\ call.done) =>
        LET result == call.arg
            item == call.ret
            text == result.episode.text
        IN /\ (/\ result.similarity = 950
               /\ result.episode = [type |-> "string", text |-> <<"3", "|", "1", "2">>]
               /\ result.from = 100 /\ result.to = 130) =>
                  /\ item.similarity = <<"9", "5", ".", "0", "%">>
                  /\ item.episode = <<"Episode ", "3", " of ", "1", "2">>
                  /\ item.timestamp = <<"0", ":", "1", "0", " - ", "0", ":", "1", "3">>
           /\ (/\ result.episode.type = "string"
               /\ Cardinality({ i \in 1..Len(text) : text[i] = "|" }) = 1) =>
                  \E i \in 1..Len(text) :
                     /\ text[i] = "|"
                     /\ item.episode = <<"Episode ">> \o SubSeq(text, 1, i - 1)
                                           \o <<" of ">> \o SubSeq(text, i + 1, Len(text))
           /\ (/\ result.from # Undefined /\ result.to # Undefined
               /\ result.from # result.to /\ result.from < 36000 /\ result.to < 36000) =>
                  item.timestamp = ClockText(result.from \div 10) \o <<" - ">>
                                   \o ClockText(result.to \div 10)

\* the match of the example rendered, and with it a range from 0.5 s to 59.9 s
C28_Witness ==
    /\ call.fn = "generateResultItemHTML" /\ call.done
    /\ call.arg.similarity = 950
    /\ call.arg.episode = [type |-> "string", text |-> <<"3", "|", "1", "2">>]
    /\ call.arg.from = 100 /\ call.arg.to = 130
    /\ call.ret.timestamp = <<"0", ":", "1", "0", " - ", "0", ":", "1", "3">>

====
